---- MODULE Spec2Model ----
(***************************************************************************)
(* upld.is: a content-addressed pastebin on Fastly Compute (src/main.rs).  *)
(* A request is routed by main() to handle_usage, handle_get or            *)
(* handle_put.  All durable state lives in the KV store and the edge       *)
(* cache; a handler is a sequence of backend calls, and the handlers of    *)
(* concurrent requests interleave between those calls.                     *)
(***************************************************************************)
EXTENDS Integers, Sequences, FiniteSets, TLC

\* ------------------------------------------------------------ constants
ID_LENGTH == 8
MIN_CONTENT_SIZE == 32
MAX_CONTENT_SIZE == 24 * 1048576
\* Durations are counted in days (the source gives them in seconds, d * 86400).
KV_TTL == 7
CACHE_TTL == 30
UPLOAD_METRICS_KEY == "_upload_metrics"

\* --------------------------------------------------------------- bounds
\* Requests received in one behaviour.
MaxRequests == 4
\* Backend faults (failed host calls) injected in one behaviour.
MaxFaults == 1

Host == "upld.is"

\* ---------------------------------------------------------------- bytes
\* A byte string is its length and its contents; bodies too large to spell
\* out are told apart by `data`.
Bytes(n, d) == [len |-> n, data |-> d]
Text(s) == Bytes(Len(s), s)
Empty == Text("")

BodySmall == Bytes(MIN_CONTENT_SIZE - 1, "small")
BodyA == Bytes(MIN_CONTENT_SIZE, "a")
BodyA2 == Bytes(40, "a2")
BodyB == Bytes(MAX_CONTENT_SIZE, "b")
BodyBig == Bytes(MAX_CONTENT_SIZE + 1, "big")
Bodies == {BodySmall, BodyA, BodyA2, BodyB, BodyBig}

\* bs58(blake3(body)): 32 bytes encode to 43 or 44 characters.  The digest
\* is an uninterpreted function of the bytes; BodyA and BodyA2 are two of
\* the distinct bodies whose encodings agree on the first ID_LENGTH
\* characters (there are more bodies than identifiers).
Blake3Base58(body) ==
    CASE body = BodyA -> "4vJ9JU1bJJE96FWSJKvHsmmFADCg4gpZQff4P3bkLKi"
      [] body = BodyA2 -> "4vJ9JU1bQ2kTz8mYp6rWn3XcVbLhGfDsAqPoiUyTrEw"
      [] body = BodyB -> "9xQeWvG8Rt5uHkLmNbVcXzAsDfGhJkQwErTyUiPoLkJ"
      [] body = BodySmall -> "2NEpo7TZRRrLZSi2U8mYp6rWn3XcVbLhGfDsAqPoiUy"
      [] OTHER -> "7ZhXnM3pKqRsTuVwXyZaBcDeFgHiJkLmNoPqRsTuVwX"

Id(body) == SubSeq(Blake3Base58(body), 1, ID_LENGTH)
Key(id) == "file_" \o id

IdA == Id(BodyA)
IdB == Id(BodyB)
\* '0' is not a base-58 digit: no body derives this identifier.
IdNone == "00000000"

\* ------------------------------------------------------------- requests
Req(m, p, h, b) == [method |-> m, path |-> p, has_body |-> h, body |-> b]
\* A path is the sequence of its segments after the leading '/'.
Root == <<"">>
Requests ==
    {Req("PUT", Root, TRUE, b) : b \in Bodies \ {BodyA2}}
        \cup {Req("PUT", Root, FALSE, Empty), Req("PUT", <<"notes.txt">>, TRUE, BodyA2)}
        \cup {Req("GET", p, FALSE, Empty) :
                p \in {Root, <<IdA>>, <<IdB, "notes.txt">>, <<IdNone>>, <<"abc">>}}
        \cup {Req("POST", Root, TRUE, BodyA)}

\* ------------------------------------------------------------ responses
Resp(k, s, b) == [kind |-> k, status |-> s, body |-> b]
Ok(s, b) == Resp("response", s, b)
\* Err(e) returned from main: the runtime answers 500.
Err(e) == Resp("error", 500, Text(e))
\* A panic aborts the instance: no response is produced by the handler.
Panic(e) == Resp("panic", 0, Text(e))
NoResp == Resp("none", 0, Empty)

\* ------------------------------------------------------------- backends
\* Both backends are maps from the keys they hold to items; an item carries
\* its bytes, the days it has left (0: no time to live) and its generation.
NoItem == [present |-> FALSE, body |-> Empty, ttl |-> 0, gen |-> 0]
Item(b, t, g) == [present |-> TRUE, body |-> b, ttl |-> t, gen |-> g]
NoItems == [k \in {} |-> NoItem]
Has(m, k) == k \in DOMAIN m
Get(m, k) == IF Has(m, k) THEN m[k] ELSE NoItem
Put(m, k, v) == [x \in DOMAIN m \cup {k} |-> IF x = k THEN v ELSE m[x]]

\* Time steps the environment takes, in days.
TickDays == {KV_TTL, CACHE_TTL}

VARIABLES
    kv,       \* the KV store "upldis storage": key -> item
    cache,    \* the edge cache: key -> item
    procs,    \* instance -> the request it is handling, and where it stands
    nreq,     \* requests received so far
    nfaults,  \* backend faults so far
    hist      \* what has been observed so far (history, read by no handler)

vars == <<kv, cache, procs, nreq, nfaults, hist>>

\* The instances the platform runs side by side.
Slots == DOMAIN procs

\* A lookup that answers Ok for a missing key, with no bytes.
KvLookupMissingOk(store, key, faulted) ==
    IF faulted THEN [ok |-> FALSE, item |-> NoItem] ELSE [ok |-> TRUE, item |-> Get(store, key)]

\* A lookup that never finds the key (the result's sense inverted).
KvLookupNever(store, key, faulted) == [ok |-> FALSE, item |-> NoItem]

\* kv.lookup(key): Ok(item) when the key is live, Err otherwise (the item is
\* missing, or the call faulted).
KvLookup(store, key, faulted) ==
    IF faulted \/ ~Has(store, key)
    THEN [ok |-> FALSE, item |-> NoItem]
    ELSE [ok |-> TRUE, item |-> store[key]]

\* An insert that stores the body after it was taken (moved out): empty bytes.
KvInsertTaken(store, key, body, ttl) == Put(store, key, Item(Empty, ttl, 0))

\* An insert without the time to live: the entry never expires.
KvInsertForever(store, key, body, ttl) == Put(store, key, Item(body, 0, 0))

\* kv.build_insert().time_to_live(ttl).execute(key, body): overwrite.
KvInsert(store, key, body, ttl) == Put(store, key, Item(body, ttl, 0))

\* An append that writes the record as a plain insert: a new value, whose
\* generation starts again.
KvAppendAsInsert(store, key, body) == Put(store, key, Item(body, 0, 0))

\* kv.build_insert().mode(InsertMode::Append).execute(key, body): the bytes
\* are appended to the value and the key's generation goes up by one.
KvAppend(store, key, body) ==
    LET old == Get(store, key)
    IN  Put(store, key,
            IF old.present
            THEN Item(Bytes(old.body.len + body.len, old.body.data \o body.data),
                      old.ttl, old.gen + 1)
            ELSE Item(body, 0, 0))

\* cache::core::lookup(key).execute(): Some(found) when an entry is live.
CacheLookup(c, key) == Get(c, key)

\* An insert whose writer is never finished: no entry becomes visible.
CacheInsertUnfinished(c, key, body, ttl) == c

\* An insert without the time to live: the entry never expires.
CacheInsertForever(c, key, body, ttl) == Put(c, key, Item(body, 0, 0))

\* An insert that writes the content after it was moved out: empty bytes.
CacheInsertTaken(c, key, body, ttl) == Put(c, key, Item(Empty, ttl, 0))

\* cache::core::insert(key, ttl) ... finish(): the entry becomes visible.
CacheInsert(c, key, body, ttl) == Put(c, key, Item(body, ttl, 0))

\* d days pass: every item with a time to live ages, and is gone at zero.
Age(m, d) ==
    [k \in {x \in DOMAIN m : m[x].ttl = 0 \/ m[x].ttl > d} |->
        IF m[k].ttl = 0 THEN m[k] ELSE [m[k] EXCEPT !.ttl = @ - d]]

\* ------------------------------------------------------------- handlers
Route(req) ==
    CASE req.method = "GET" /\ req.path = Root -> "usage"
      [] req.method = "GET" /\ req.path # Root -> "get"
      [] req.method = "PUT" -> "put"
      [] OTHER -> "reject"

\* The size checks with the bounds exclusive.
ValidateExclusive(req) ==
    IF ~req.has_body THEN Ok(400, Text("missing upload body"))
    ELSE IF req.body.len <= MIN_CONTENT_SIZE THEN Ok(400, Text("content too small"))
    ELSE IF req.body.len >= MAX_CONTENT_SIZE THEN Ok(413, Text("content too large"))
    ELSE NoResp

\* The checks without the upper bound.
ValidateNoMax(req) ==
    IF ~req.has_body THEN Ok(400, Text("missing upload body"))
    ELSE IF req.body.len < MIN_CONTENT_SIZE THEN Ok(400, Text("content too small"))
    ELSE NoResp

\* The three checks at the head of handle_put; NoResp when the body passes.
Validate(req) ==
    IF ~req.has_body THEN Ok(400, Text("missing upload body"))
    ELSE IF req.body.len < MIN_CONTENT_SIZE THEN Ok(400, Text("content too small"))
    ELSE IF req.body.len > MAX_CONTENT_SIZE THEN Ok(413, Text("content too large"))
    ELSE NoResp

NotFound == Ok(404, Text("not found"))

\* The first path segment, checked for its length by handle_get.
GetId(req) == Head(req.path)
\* The length check as an upper bound only.
IdOkAtMost(id) == Len(id) <= ID_LENGTH
IdOk(id) == Len(id) = ID_LENGTH

PutUrl(req, id) ==
    LET file == req.path[Len(req.path)]
    IN  Text("https://" \o Host \o "/" \o id
             \o (IF file # "" THEN "/" \o file ELSE "") \o "\n")

\* upload_count: generation + 1 of the log key, 0 when the lookup is Err.
upload_count(res) == IF res.ok THEN res.item.gen + 1 ELSE 0

\* The record track_uploads appends: "{id},{timestamp}".
LogRecord(id) == Text(id \o ",")

Usage(count) == Ok(200, Text("All time uploads   :  " \o ToString(count)))

\* The count a fault-free upload_count() would return now.
Count(store) == upload_count(KvLookup(store, UPLOAD_METRICS_KEY, FALSE))

\* ------------------------------------------------- history (observation)
\* Of the last completed upload, for the upload that follows it directly.
NoPair == [valid |-> FALSE, body |-> Empty, id |-> "", before |-> 0, fresh |-> FALSE]

IdleProc ==
    [pc |-> "idle", req |-> Req("", Root, FALSE, Empty), id |-> "",
     content |-> Empty, resp |-> NoResp,
     \* history of this request
     fault |-> "none",    \* the first backend call that faulted
     acc |-> <<>>,        \* the backend calls made, in order
     wrote |-> FALSE,     \* it wrote the body to the store
     appended |-> FALSE,  \* it appended to the upload log
     hit |-> "",          \* what the cache held at its lookup
     origin |-> "",       \* what the store held at its lookup
     held |-> Empty,      \* the bytes the store held under its key then
     expect |-> {},       \* bodies acknowledged under its id when it began
     first |-> FALSE,     \* it is the first retrieval after a fresh upload
     solo |-> TRUE,       \* no other request ran beside it
     before |-> 0,        \* the upload count when it began
     after |-> 0,         \* the upload count when it ended
     pair |-> NoPair,     \* the upload of the same bytes just before it
     over |-> FALSE,      \* its write replaced an entry the store held
     gone |-> FALSE,      \* at its cache lookup KV_TTL had passed since the write
     cold |-> FALSE,      \* ... and CACHE_TTL since the last cache fill
     late |-> FALSE]      \* at its cache lookup Horizon had passed since the write

InFlight(p) == procs[p].pc \notin {"idle", "done"}

\* Deadlines, per key: the days left of a period that began at an event.  A
\* key leaves the map when its period has elapsed.
Horizon == KV_TTL + CACHE_TTL
NoDues == [k \in {} |-> 0]
Elapse(dues, d) == [k \in {x \in DOMAIN dues : dues[x] > d} |-> dues[k] - d]

InitHist ==
    [acked |-> {},      \* <<key, body>>: body uploaded with 200 and still stored
     written |-> {},    \* <<key, body>>: body ever written under key
     fresh |-> {},      \* keys written by an upload and not retrieved since
     prev |-> NoPair,   \* the last completed upload
     stored |-> NoDues, \* key -> days left of KV_TTL since its last store write
     filled |-> NoDues, \* key -> days left of CACHE_TTL since its last cache fill
     within |-> NoDues, \* key -> days left of Horizon since its last store write
     watch |-> {},      \* the keys `within` and `cached` are kept for
     cached |-> {},     \* the keys the cache was ever filled for
     appends |-> 0,     \* appends to the upload log that have completed
     counts |-> [prev |-> 0, last |-> 0]]    \* the last two values of upload_count()

\* The bodies a set of <<key, body>> pairs holds for key k.
Of(pairs, k) == {x[2] : x \in {y \in pairs : y[1] = k}}
Without(pairs, ks) == {y \in pairs : y[1] \notin ks}

InitWith(instances, watch) ==
    /\ kv = NoItems
    /\ cache = NoItems
    /\ procs = [p \in instances |-> IdleProc]
    /\ nreq = 0
    /\ nfaults = 0
    /\ hist = [InitHist EXCEPT !.watch = watch]

\* One instance at a time: requests are handled one after the other.
Init == InitWith({1}, {})

\* A host call fails only while the fault budget lasts.
Faulty(o) == o # "ok"
Budget(o) ==
    /\ Faulty(o) => nfaults < MaxFaults
    /\ nfaults' = IF Faulty(o) THEN nfaults + 1 ELSE nfaults

Done(rec, r, store) == [rec EXCEPT !.pc = "done", !.resp = r, !.after = Count(store)]
Call(rec, op, o) ==
    [rec EXCEPT !.acc = Append(@, op),
                !.fault = IF Faulty(o) /\ @ = "none" THEN o ELSE @]

\* The history after request rec has completed.
Completed(h, rec, store) ==
    LET put200 == rec.req.method = "PUT" /\ rec.resp = Ok(200, PutUrl(rec.req, rec.id))
        k == Key(rec.id)
    IN  [h EXCEPT
           !.acked = IF put200 /\ Has(store, k) THEN @ \cup {<<k, rec.req.body>>} ELSE @,
           !.fresh = IF put200 /\ rec.fault = "none" /\ rec.wrote /\ Has(store, k)
                     THEN @ \cup {k}
                     ELSE @,
           !.prev = IF put200 /\ rec.fault = "none" /\ rec.solo /\ Has(store, k)
                    THEN [valid |-> TRUE, body |-> rec.req.body, id |-> rec.id,
                          before |-> rec.before, fresh |-> rec.wrote]
                    ELSE NoPair]

\* main, and the handler up to its first backend call.
Receive(p, req) ==
    /\ ~InFlight(p)
    /\ \A q \in Slots : q < p => InFlight(q)
    /\ nreq < MaxRequests
    /\ nreq' = nreq + 1
    /\ LET alone == \A q \in Slots : ~InFlight(q)
           follows == /\ alone /\ hist.prev.valid
                      /\ req.method = "PUT" /\ req.has_body /\ req.body = hist.prev.body
           rec == [IdleProc EXCEPT !.req = req, !.solo = alone,
                                   !.before = Count(kv),
                                   !.pair = IF follows THEN hist.prev ELSE NoPair]
           to == Route(req)
           others == [q \in Slots |->
                        IF InFlight(q)
                        THEN [procs[q] EXCEPT !.solo = FALSE, !.pair = NoPair]
                        ELSE procs[q]]
           new == CASE to = "usage" -> [rec EXCEPT !.pc = "usage"]
                    [] to = "get" ->
                         IF ~IdOk(GetId(req)) THEN Done(rec, NotFound, kv)
                         ELSE [rec EXCEPT !.pc = "get_cache", !.id = GetId(req),
                                          !.expect = Of(hist.acked, Key(GetId(req)))]
                    [] to = "put" ->
                         IF Validate(req) # NoResp THEN Done(rec, Validate(req), kv)
                         ELSE [rec EXCEPT !.pc = "put_lookup", !.id = Id(req.body)]
                    [] OTHER -> Done(rec, Ok(403, Text("invalid request")), kv)
       IN  /\ procs' = [others EXCEPT ![p] = new]
           /\ hist' = [hist EXCEPT !.prev = NoPair]
    /\ UNCHANGED <<kv, cache, nfaults>>

\* KVStore::open(KV_STORE)?.expect("kv store to exist")
OpenOutcomes == {"open_err", "open_none"}
OpenFailed(rec, o, store) ==
    IF o = "open_err" THEN Done(Call(rec, "kv.open", o), Err("kv open"), store)
    ELSE Done(Call(rec, "kv.open", o), Panic("kv store to exist"), store)

\* A step of instance p that ends its request with record rec.
Finish(p, rec, store) ==
    /\ procs' = [procs EXCEPT ![p] = rec]
    /\ hist' = Completed(hist, rec, store)

\* handle_put: open the store and look the key up.
PutLookup(p, o) ==
    /\ procs[p].pc = "put_lookup"
    /\ o \in {"ok", "kv.lookup"} \cup OpenOutcomes
    /\ Budget(o)
    /\ LET rec == procs[p]
           res == KvLookup(kv, Key(rec.id), o = "kv.lookup")
           rec2 == [Call(Call(rec, "kv.open", "ok"), "kv.lookup", o)
                       EXCEPT !.origin = IF Has(kv, Key(rec.id))
                                         THEN "present" ELSE "absent",
                              !.held = Get(kv, Key(rec.id)).body]
       IN  IF o \in OpenOutcomes THEN Finish(p, OpenFailed(rec, o, kv), kv)
           ELSE IF ~res.ok
           THEN /\ procs' = [procs EXCEPT ![p] = [rec2 EXCEPT !.pc = "put_insert"]]
                /\ UNCHANGED hist
           ELSE Finish(p, Done(rec2, Ok(200, PutUrl(rec.req, rec.id)), kv), kv)
    /\ UNCHANGED <<kv, cache, nreq>>

\* handle_put: write the body under the key with KV_TTL.
PutInsert(p, o) ==
    /\ procs[p].pc = "put_insert"
    /\ o \in {"ok", "kv.insert"}
    /\ Budget(o)
    /\ LET rec == Call(procs[p], "kv.insert", o)
           k == Key(rec.id)
       IN  IF Faulty(o)
           THEN /\ Finish(p, Done(rec, Err("kv insert"), kv), kv)
                /\ UNCHANGED kv
           ELSE /\ procs' = [procs EXCEPT ![p] =
                        [rec EXCEPT !.pc = "put_track", !.wrote = TRUE,
                                    !.over = Has(kv, k)]]
                /\ kv' = KvInsert(kv, k, rec.req.body, KV_TTL)
                /\ hist' = [hist EXCEPT !.written = @ \cup {<<k, rec.req.body>>},
                                        !.stored = Put(@, k, KV_TTL),
                                        !.within = IF k \in hist.watch
                                                   THEN Put(@, k, Horizon)
                                                   ELSE @]
    /\ UNCHANGED <<cache, nreq>>

\* handle_put: track_uploads, then the response.
PutTrack(p, o) ==
    /\ procs[p].pc = "put_track"
    /\ o \in {"ok", "kv.append"}
    /\ Budget(o)
    /\ LET rec == Call(procs[p], "kv.append", o)
       IN  IF Faulty(o)
           THEN /\ Finish(p, Done(rec, Err("kv append"), kv), kv)
                /\ UNCHANGED kv
           ELSE /\ kv' = KvAppend(kv, UPLOAD_METRICS_KEY, LogRecord(rec.id))
                /\ LET end == Done([rec EXCEPT !.appended = TRUE],
                                   Ok(200, PutUrl(rec.req, rec.id)), kv')
                   IN  /\ procs' = [procs EXCEPT ![p] = end]
                       /\ hist' = [Completed(hist, end, kv') EXCEPT !.appends = @ + 1]
    /\ UNCHANGED <<cache, nreq>>

\* handle_get: the cache lookup, and the response on a hit.
GetCache(p, o) ==
    /\ procs[p].pc = "get_cache"
    /\ o \in {"ok", "cache.lookup", "cache.stream"}
    /\ Budget(o)
    /\ LET k == Key(procs[p].id)
           found == CacheLookup(cache, k)
           rec == [Call(procs[p], "cache.lookup", o)
                      EXCEPT !.hit = IF found.present THEN "hit" ELSE "miss",
                             !.first = k \in hist.fresh,
                             !.gone = /\ Of(hist.written, k) # {}
                                      /\ k \notin DOMAIN hist.stored,
                             !.cold = /\ Of(hist.written, k) # {}
                                      /\ k \notin DOMAIN hist.stored
                                      /\ k \notin DOMAIN hist.filled,
                             !.late = /\ Of(hist.written, k) # {}
                                      /\ k \in hist.watch
                                      /\ k \notin DOMAIN hist.within]
       IN  /\ o = "cache.stream" => found.present
           /\ procs' = [procs EXCEPT ![p] =
                 IF Faulty(o) THEN Done(rec, Err(o), kv)
                 ELSE IF found.present THEN Done(rec, Ok(200, found.body), kv)
                 ELSE [rec EXCEPT !.pc = "get_origin"]]
           /\ hist' = [hist EXCEPT !.fresh = @ \ {k},
                                   !.prev = IF procs'[p].pc = "done" THEN NoPair ELSE @]
    /\ UNCHANGED <<kv, cache, nreq>>

\* handle_get: the origin lookup.
GetOrigin(p, o) ==
    /\ procs[p].pc = "get_origin"
    /\ o \in {"ok", "kv.lookup"} \cup OpenOutcomes
    /\ Budget(o)
    /\ LET rec == procs[p]
           res == KvLookup(kv, Key(rec.id), o = "kv.lookup")
           rec2 == [Call(Call(rec, "kv.open", "ok"), "kv.lookup", o)
                       EXCEPT !.origin = IF Has(kv, Key(rec.id))
                                         THEN "present" ELSE "absent"]
       IN  IF o \in OpenOutcomes THEN Finish(p, OpenFailed(rec, o, kv), kv)
           ELSE IF ~res.ok THEN Finish(p, Done(rec2, NotFound, kv), kv)
           ELSE /\ procs' = [procs EXCEPT ![p] =
                        [rec2 EXCEPT !.pc = "get_fill", !.content = res.item.body]]
                /\ UNCHANGED hist
    /\ UNCHANGED <<kv, cache, nreq>>

\* handle_get: write the content to the cache, then the response.
GetFill(p, o) ==
    /\ procs[p].pc = "get_fill"
    /\ o \in {"ok", "cache.insert", "cache.write", "cache.finish"}
    /\ Budget(o)
    /\ LET rec == Call(procs[p], "cache.insert", o)
       IN  IF Faulty(o)
           THEN /\ Finish(p, Done(rec, Err(o), kv), kv)
                /\ UNCHANGED cache
           ELSE /\ procs' = [procs EXCEPT ![p] = Done(rec, Ok(200, rec.content), kv)]
                /\ hist' = [Completed(hist, procs'[p], kv)
                               EXCEPT !.filled = Put(@, Key(rec.id), CACHE_TTL),
                                      !.cached = @ \cup ({Key(rec.id)} \cap hist.watch)]
                /\ cache' = CacheInsert(cache, Key(rec.id), rec.content, CACHE_TTL)
    /\ UNCHANGED <<kv, nreq>>

\* handle_usage: open the store, read the counter, render the page.
HandleUsage(p, o) ==
    /\ procs[p].pc = "usage"
    /\ o \in {"ok", "kv.lookup"} \cup OpenOutcomes
    /\ Budget(o)
    /\ LET rec == procs[p]
           res == KvLookup(kv, UPLOAD_METRICS_KEY, o = "kv.lookup")
           rec2 == Call(Call(rec, "kv.open", "ok"), "kv.lookup", o)
       IN  IF o \in OpenOutcomes THEN Finish(p, OpenFailed(rec, o, kv), kv)
           ELSE /\ procs' = [procs EXCEPT ![p] = Done(rec2, Usage(upload_count(res)), kv)]
                /\ hist' = [hist EXCEPT
                       !.prev = NoPair,
                       !.counts = [prev |-> @.last, last |-> upload_count(res)]]
    /\ UNCHANGED <<kv, cache, nreq>>

\* Time passes: the entries of both tiers age and expire.
Tick(d) ==
    /\ \/ \E k \in DOMAIN kv : kv[k].ttl > 0
       \/ DOMAIN cache # {}
    /\ kv' = Age(kv, d)
    /\ cache' = Age(cache, d)
    /\ LET gone == DOMAIN kv \ DOMAIN kv'
       IN  /\ hist' = [hist EXCEPT
                 !.acked = Without(@, gone),
                 !.fresh = @ \ gone,
                 !.stored = Elapse(@, d),
                 !.filled = Elapse(@, d),
                 !.within = Elapse(@, d),
                 !.prev = IF @.valid /\ Key(@.id) \in gone THEN NoPair ELSE @]
           /\ procs' = [p \in Slots |->
                 IF InFlight(p) /\ Key(procs[p].id) \in gone
                 THEN [procs[p] EXCEPT !.expect = {}, !.first = FALSE, !.pair = NoPair]
                 ELSE procs[p]]
    /\ UNCHANGED <<nreq, nfaults>>

Outcomes ==
    {"ok", "kv.lookup", "kv.insert", "kv.append", "cache.lookup", "cache.stream",
     "cache.insert", "cache.write", "cache.finish"} \cup OpenOutcomes

Next ==
    \/ \E p \in Slots, req \in Requests : Receive(p, req)
    \/ \E p \in Slots, o \in Outcomes : PutLookup(p, o)
    \/ \E p \in Slots, o \in Outcomes : PutInsert(p, o)
    \/ \E p \in Slots, o \in Outcomes : PutTrack(p, o)
    \/ \E p \in Slots, o \in Outcomes : GetCache(p, o)
    \/ \E p \in Slots, o \in Outcomes : GetOrigin(p, o)
    \/ \E p \in Slots, o \in Outcomes : GetFill(p, o)
    \/ \E p \in Slots, o \in Outcomes : HandleUsage(p, o)
    \/ \E d \in TickDays : Tick(d)

Spec == Init /\ [][Next]_vars

\* The life of one paste, with its Horizon observed: the uploads and
\* retrievals of one identifier, one after the other, no backend call failing.
TimeRequests == {Req("PUT", Root, TRUE, BodyA), Req("GET", <<IdA>>, FALSE, Empty)}
InitTime == InitWith({1}, {Key(IdA)})
NextTime ==
    \/ \E p \in Slots, req \in TimeRequests : Receive(p, req)
    \/ \E p \in Slots : PutLookup(p, "ok")
    \/ \E p \in Slots : PutInsert(p, "ok")
    \/ \E p \in Slots : PutTrack(p, "ok")
    \/ \E p \in Slots : GetCache(p, "ok")
    \/ \E p \in Slots : GetOrigin(p, "ok")
    \/ \E p \in Slots : GetFill(p, "ok")
    \/ \E d \in TickDays : Tick(d)
SpecTime == InitTime /\ [][NextTime]_vars

\* Two instances side by side: uploads of two bodies that derive one
\* identifier and retrievals of it, interleaved between their backend calls,
\* none of which fails.
RaceRequests ==
    {Req("PUT", Root, TRUE, BodyA), Req("PUT", <<"notes.txt">>, TRUE, BodyA2),
     Req("GET", <<IdA>>, FALSE, Empty)}
InitRace == InitWith({1, 2}, {})
NextRace ==
    \/ \E p \in Slots, req \in RaceRequests : Receive(p, req)
    \/ \E p \in Slots : PutLookup(p, "ok")
    \/ \E p \in Slots : PutInsert(p, "ok")
    \/ \E p \in Slots : PutTrack(p, "ok")
    \/ \E p \in Slots : GetCache(p, "ok")
    \/ \E p \in Slots : GetOrigin(p, "ok")
    \/ \E p \in Slots : GetFill(p, "ok")
    \/ \E d \in TickDays : Tick(d)
SpecRace == InitRace /\ [][NextRace]_vars

\* =============================================================== claims
IsPut(r) == r.req.method = "PUT"
IsGet(r) == r.req.method = "GET" /\ r.req.path # Root
Ended(p) == procs[p].pc = "done"
\* No backend call of the request faulted.
Clean(r) == r.fault = "none"
Live(m, k) == Has(m, k)

\* C1 (as claimed) -- Round trip: once an upload of b has returned 200 with
\* identifier id and while the store entry has not expired, a retrieval of
\* id (none of whose backend calls faults) returns 200 with exactly b.
C1_RoundTripAnyBody ==
    \A p \in Slots :
        Ended(p) /\ IsGet(procs[p]) /\ Clean(procs[p])
            => \A b \in procs[p].expect : procs[p].resp = Ok(200, b)

\* C1 (amended) -- the round trip holds when b is the only body ever stored
\* under its key: no distinct body deriving the same identifier was stored.
C1_RoundTrip ==
    \A p \in Slots :
        Ended(p) /\ IsGet(procs[p]) /\ Clean(procs[p])
            => \A b \in procs[p].expect :
                   Of(hist.written, Key(procs[p].id)) = {b}
                       => procs[p].resp = Ok(200, b)

\* A retrieval returned the uploaded bytes while another paste is stored too.
C1_Witness ==
    \E p \in Slots :
        /\ Ended(p) /\ IsGet(procs[p]) /\ Clean(procs[p])
        /\ procs[p].expect = {BodyA}
        /\ Of(hist.written, Key(IdA)) = {BodyA}
        /\ procs[p].resp = Ok(200, BodyA)
        /\ Live(kv, Key(IdB))

\* C2 (as claimed) -- Dedup: the second of two uploads of the same bytes,
\* one directly after the other, returns the same identifier, writes and
\* appends nothing, and the count rises by exactly 1 across the two.
C2_DedupPlusOne ==
    \A p \in Slots :
        Ended(p) /\ IsPut(procs[p]) /\ Clean(procs[p]) /\ procs[p].pair.valid
            => /\ procs[p].resp = Ok(200, PutUrl(procs[p].req, procs[p].pair.id))
               /\ ~procs[p].wrote /\ ~procs[p].appended
               /\ procs[p].after = procs[p].pair.before + 1

\* C2 (amended) -- as claimed, but the count rises by 1 only when the first
\* upload found the key absent; it rises by 0 when the key was stored already.
C2_Dedup ==
    \A p \in Slots :
        Ended(p) /\ IsPut(procs[p]) /\ Clean(procs[p]) /\ procs[p].pair.valid
            => /\ procs[p].resp = Ok(200, PutUrl(procs[p].req, procs[p].pair.id))
               /\ ~procs[p].wrote /\ ~procs[p].appended
               /\ procs[p].after =
                     procs[p].pair.before + (IF procs[p].pair.fresh THEN 1 ELSE 0)

\* The second upload ended, after a first one that stored the bytes.
C2_Witness ==
    \E p \in Slots :
        /\ Ended(p) /\ IsPut(procs[p]) /\ Clean(procs[p])
        /\ procs[p].pair.valid /\ procs[p].pair.fresh
        /\ procs[p].after = procs[p].pair.before + 1

\* C3 -- Counter monotonicity: upload_count() returns 0 at first and no call
\* returns less than the call before it.
C3_CountNeverDecreases == hist.counts.last >= hist.counts.prev

\* C4 -- Validation order and inclusive bounds: an absent body gets 400
\* "missing upload body", a body under MIN_CONTENT_SIZE 400 "content too
\* small", one over MAX_CONTENT_SIZE 413 "content too large"; bodies of
\* MIN_CONTENT_SIZE to MAX_CONTENT_SIZE bytes pass; the three answers differ.
C4_Rejections ==
    {Ok(400, Text("missing upload body")), Ok(400, Text("content too small")),
     Ok(413, Text("content too large"))}
Invalid(req) ==
    \/ ~req.has_body
    \/ req.body.len < MIN_CONTENT_SIZE
    \/ req.body.len > MAX_CONTENT_SIZE

\* C5 -- A rejected upload touches no storage: it makes no backend call (no
\* lookup), and the step that answers it leaves store, log and cache as
\* they were.
C5_RejectedTouchesNothing ==
    [][\A p \in Slots :
          IsPut(procs'[p]) /\ Invalid(procs'[p].req)
              => /\ procs'[p].acc = <<>>
                 /\ ~procs'[p].wrote /\ ~procs'[p].appended
                 /\ procs'[p] # procs[p] => kv' = kv /\ cache' = cache]_vars

\* An oversized upload was rejected while the store and the log hold data.
C5_Witness ==
    \E p \in Slots :
        /\ Ended(p) /\ IsPut(procs[p])
        /\ procs[p].req.body = BodyBig
        /\ procs[p].resp.status = 413
        /\ Live(kv, Key(IdA)) /\ Live(kv, UPLOAD_METRICS_KEY)

\* C6 -- A retrieval whose first path segment is not ID_LENGTH long is
\* answered 404 "not found" with no backend call, neither tier touched.
C6_BadIdTouchesNothing ==
    [][\A p \in Slots :
          IsGet(procs'[p]) /\ Len(Head(procs'[p].req.path)) # ID_LENGTH
              => /\ procs'[p].pc = "done"
                 /\ procs'[p].resp = Ok(404, Text("not found"))
                 /\ procs'[p].acc = <<>>
                 /\ procs'[p] # procs[p] => kv' = kv /\ cache' = cache]_vars

\* A malformed identifier was answered while both tiers hold a paste.
C6_Witness ==
    \E p \in Slots :
        /\ Ended(p) /\ IsGet(procs[p])
        /\ Head(procs[p].req.path) = "abc"
        /\ procs[p].resp.status = 404
        /\ Live(kv, Key(IdA)) /\ Live(cache, Key(IdA))

\* The step in which instance p ends a retrieval of a well-formed identifier,
\* no backend call of which faulted.
GetEnds(p) ==
    /\ procs[p].pc # "done" /\ procs'[p].pc = "done"
    /\ IsGet(procs'[p]) /\ Len(procs'[p].id) = ID_LENGTH /\ Clean(procs'[p])

\* p is answered from the edge cache, the store not touched.
FromCache(p) ==
    LET r == procs'[p]
        k == Key(r.id)
    IN  /\ Has(cache, k)
        /\ r.acc = <<"cache.lookup">>
        /\ r.resp = Ok(200, cache[k].body)
        /\ kv' = kv /\ cache' = cache

\* p is answered from the store and leaves the same bytes in the cache.
FromStore(p) ==
    LET r == procs'[p]
        k == Key(r.id)
    IN  /\ r.acc = <<"cache.lookup", "kv.open", "kv.lookup", "cache.insert">>
        /\ r.hit = "miss" /\ r.origin = "present"
        /\ r.content \in Of(hist.written, k)
        /\ r.resp = Ok(200, r.content)
        /\ Has(cache', k) /\ cache'[k] = Item(r.content, CACHE_TTL, 0)

\* C7 (as claimed) -- Two-tier read path: the first retrieval after a fresh
\* upload misses the cache, is served from the store and fills the cache
\* with the same bytes; a retrieval that finds a live cache entry is served
\* from the cache with no store access.
C7_FirstAlwaysFromStore ==
    [][\A p \in Slots :
          GetEnds(p) => /\ procs'[p].first => FromStore(p)
                        /\ procs'[p].hit = "hit" => FromCache(p)]_vars

\* C7 (amended) -- the first retrieval after a fresh upload is served from
\* the store and fills the cache unless the cache still holds an entry for
\* the key from before that upload; a live cache entry is always served
\* from the cache with no store access.
C7_TwoTier ==
    [][\A p \in Slots :
          GetEnds(p) => /\ procs'[p].first /\ procs'[p].hit = "miss" => FromStore(p)
                        /\ procs'[p].hit = "hit" => FromCache(p)]_vars

\* A later retrieval was served from the cache while the store holds the key.
C7_Witness ==
    \E p \in Slots :
        /\ Ended(p) /\ IsGet(procs[p]) /\ Clean(procs[p])
        /\ procs[p].hit = "hit" /\ ~procs[p].first
        /\ procs[p].acc = <<"cache.lookup">>
        /\ procs[p].resp = Ok(200, BodyA)
        /\ Live(kv, Key(IdA)) /\ Live(cache, Key(IdA))

\* C8 -- A fault while filling the cache (insert, write, finish) does not
\* fail the retrieval: the caller gets 200 with the bytes of the store.
C8_FillFaultStillServes ==
    \A p \in Slots :
        (/\ Ended(p) /\ IsGet(procs[p])
         /\ procs[p].fault \in {"cache.insert", "cache.write", "cache.finish"})
            => procs[p].resp = Ok(200, procs[p].content)

\* C9 -- A store fault on the critical path fails the request: a faulting
\* origin lookup ends a retrieval in a backend failure (not 404, not 200),
\* a faulting lookup or write ends an upload in a failure (not 200).
C9_StoreFaultFails ==
    \A p \in Slots :
        Ended(p) =>
            /\ IsGet(procs[p]) /\ procs[p].fault = "kv.lookup"
                  => procs[p].resp.kind = "error"
            /\ IsPut(procs[p]) /\ procs[p].fault \in {"kv.lookup", "kv.insert"}
                  => procs[p].resp.kind = "error"

\* C10 -- A well-formed identifier held by neither tier is answered 404 "not
\* found", the very response a malformed identifier gets, whether the
\* identifier was never uploaded or has expired.
C10_AbsentIsNotFound ==
    \A p \in Slots :
        Ended(p) /\ IsGet(procs[p]) /\ Clean(procs[p]) =>
            /\ Len(Head(procs[p].req.path)) # ID_LENGTH
                  => procs[p].resp = Ok(404, Text("not found"))
            /\ (/\ Len(Head(procs[p].req.path)) = ID_LENGTH
                /\ procs[p].hit = "miss" /\ procs[p].origin = "absent")
                  => procs[p].resp = Ok(404, Text("not found"))

\* An identifier that was uploaded and has expired was answered 404.
C10_Witness ==
    \E p \in Slots :
        /\ Ended(p) /\ IsGet(procs[p]) /\ Clean(procs[p])
        /\ procs[p].id = IdA
        /\ Of(hist.written, Key(IdA)) # {}
        /\ procs[p].hit = "miss" /\ procs[p].origin = "absent"
        /\ procs[p].resp.status = 404

\* The keys a paste was ever written under.
Written == {x[1] : x \in hist.written}

\* C11 -- Expiry lifecycle: a paste is in the store exactly until KV_TTL has
\* passed since its last write, and in the cache exactly until CACHE_TTL has
\* passed since the cache was filled; once the store entry has expired, a
\* retrieval gets the bytes from the cache while the cache entry lasts, and
\* 404 when the cache was never filled or its entry has expired as well.
C11_ExpiryLifecycle ==
    /\ DOMAIN cache \subseteq Written
    /\ \A k \in Written :
          /\ Has(kv, k) <=> k \in DOMAIN hist.stored
          /\ Has(kv, k) => kv[k].ttl = hist.stored[k]
          /\ Has(cache, k) <=> k \in DOMAIN hist.filled
          /\ Has(cache, k) => cache[k].ttl = hist.filled[k]
    /\ \A p \in Slots :
          LET r == procs[p]
          IN  Ended(p) /\ IsGet(r) /\ Clean(r) =>
                /\ r.gone /\ ~r.cold =>
                      /\ r.acc = <<"cache.lookup">>
                      /\ \E b \in Of(hist.written, Key(r.id)) : r.resp = Ok(200, b)
                /\ r.cold => r.resp = Ok(404, Text("not found"))

\* A paste was served from the cache after its store entry had expired.
C11_Witness ==
    \E p \in Slots :
        /\ Ended(p) /\ IsGet(procs[p]) /\ Clean(procs[p])
        /\ procs[p].gone /\ ~procs[p].cold
        /\ procs[p].id = IdA /\ procs[p].resp = Ok(200, BodyA)
        /\ ~Has(kv, Key(IdA))

\* C12 -- Every request ends in a response, on every path, a missing KV
\* store included: no handler ends in a panic.
C12_AlwaysAResponse ==
    \A p \in Slots : Ended(p) => procs[p].resp.kind # "panic"

C15_CacheLookupFaultSwallowed ==
    \A p \in Slots :
        (/\ Ended(p) /\ IsGet(procs[p])
         /\ procs[p].fault \in {"cache.lookup", "cache.stream"})
            => /\ procs[p].resp.kind = "response"
               /\ procs[p].resp.status \in {200, 404}

\* C16 -- Upload side effects come as a pair: an upload that has ended,
\* with success or with an error, wrote the paste to the store if and only
\* if it appended a record to the upload log.
C16_WriteIffAppend ==
    \A p \in Slots :
        Ended(p) /\ IsPut(procs[p]) => (procs[p].wrote <=> procs[p].appended)

\* C17 -- The count is derived from the generation of the log key: it is 0
\* while the key was never written, and in every state upload_count() is
\* the number of appends that have completed; the info page shows it.
C17_CountIsAppends ==
    /\ Count(kv) = hist.appends
    /\ ~Has(kv, UPLOAD_METRICS_KEY) <=> hist.appends = 0
    /\ \A p \in Slots :
          (/\ Ended(p) /\ Route(procs[p].req) = "usage" /\ Clean(procs[p]))
              => procs[p].resp = Usage(hist.appends)

\* The info page showed 2 after two appends.
C17_Witness ==
    \E p \in Slots :
        /\ Ended(p) /\ Route(procs[p].req) = "usage" /\ Clean(procs[p])
        /\ hist.appends = 2
        /\ procs[p].resp = Usage(2)

\* Two uploads of the same bytes that both wrote the store.
BothWrote(p, q) ==
    /\ p # q /\ Ended(p) /\ Ended(q)
    /\ IsPut(procs[p]) /\ IsPut(procs[q])
    /\ procs[p].req.body = procs[q].req.body
    /\ procs[p].wrote /\ procs[q].wrote

\* C13 -- Dedup race: two concurrent first-time uploads of the same bytes
\* can both find the key absent, both write and both append (the count goes
\* up by 2 for one content); whenever both wrote, both appended, both
\* answered 200 with the same URL, and the store holds the uploaded bytes.
C13_RaceKeepsBytes ==
    \A p, q \in Slots :
        BothWrote(p, q) =>
            /\ procs[p].appended /\ procs[q].appended
            /\ procs[p].id = procs[q].id
            /\ procs[p].resp = Ok(200, PutUrl(procs[p].req, Id(procs[p].req.body)))
            /\ procs[q].resp = procs[p].resp
            /\ Has(kv, Key(procs[p].id)) => kv[Key(procs[p].id)].body = procs[p].req.body

\* Both uploads of BodyA found the key absent, the second write replaced
\* the first, and the count rose from 0 to 2 with one content stored.
C13_Witness ==
    \E p, q \in Slots :
        /\ BothWrote(p, q)
        /\ procs[p].req.body = BodyA
        /\ procs[p].origin = "absent" /\ procs[q].origin = "absent"
        /\ procs[q].over
        /\ procs[p].before = 0 /\ procs[q].before = 0
        /\ Count(kv) = 2
        /\ hist.written = {<<Key(IdA), BodyA>>}
        /\ kv[Key(IdA)].body = BodyA

\* The paste keys of a store: every key but the upload log.
Pastes(store) == DOMAIN store \ {UPLOAD_METRICS_KEY}

\* In this step an upload writes over the entry the store holds under k.
Overwrites(p, k) ==
    ~procs[p].over /\ procs'[p].over /\ Key(procs'[p].id) = k

\* C18 (as claimed) -- A paste is immutable once written: until its expiry
\* no step overwrites the entry, changes its bytes or moves its deadline,
\* and the entry leaves the store by expiry only.
C18_NeverOverwritten ==
    [][\A k \in Pastes(kv) :
          \/ /\ Has(kv', k) /\ kv'[k] = kv[k]
             /\ \A p \in Slots : ~Overwrites(p, k)
          \/ \E d \in TickDays : kv' = Age(kv, d)]_vars

\* C18 (amended) -- the entry is overwritten only by an upload that did not
\* find it (its lookup ran before the entry was written, or failed), which
\* stores its own bytes and starts the time to live again; no other step
\* changes the entry, and it leaves the store by expiry only.
C18_OverwrittenOnlyUnseen ==
    [][\A k \in Pastes(kv) :
          \/ /\ Has(kv', k) /\ kv'[k] = kv[k]
             /\ \A p \in Slots : ~Overwrites(p, k)
          \/ \E d \in TickDays : kv' = Age(kv, d)
          \/ \E p \in Slots :
                /\ Overwrites(p, k)
                /\ procs'[p].origin = "absent" \/ procs'[p].fault = "kv.lookup"
                /\ kv'[k] = Item(procs'[p].req.body, KV_TTL, 0)]_vars

\* An upload that had found the key absent wrote over the entry a concurrent
\* upload had stored meanwhile.
C18_Witness ==
    \E p \in Slots :
        /\ Ended(p) /\ IsPut(procs[p])
        /\ procs[p].over /\ procs[p].origin = "absent"
        /\ Has(kv, Key(procs[p].id))
        /\ kv[Key(procs[p].id)].body = procs[p].req.body

\* C19 (as claimed) -- Cache coherence: a cache entry holds bytes that were
\* stored in the store under the same key, and whenever both tiers hold a
\* key their bytes are identical.
C19_TiersAgree ==
    \A k \in DOMAIN cache :
        /\ cache[k].body \in Of(hist.written, k)
        /\ Has(kv, k) => kv[k].body = cache[k].body

\* C19 (amended) -- a cache entry holds bytes that were stored in the store
\* under the same key; both tiers hold identical bytes for every key under
\* which one body only was ever written.
C19_TiersAgreeOneBody ==
    \A k \in DOMAIN cache :
        /\ cache[k].body \in Of(hist.written, k)
        /\ Cardinality(Of(hist.written, k)) = 1 /\ Has(kv, k)
              => kv[k].body = cache[k].body

\* Two concurrent retrievals both read the store and both filled the cache;
\* both tiers hold the uploaded bytes.
C19_Witness ==
    \E p, q \in Slots :
        /\ p # q /\ Ended(p) /\ Ended(q)
        /\ IsGet(procs[p]) /\ IsGet(procs[q])
        /\ procs[p].hit = "miss" /\ procs[q].hit = "miss"
        /\ procs[p].resp = Ok(200, BodyA) /\ procs[q].resp = Ok(200, BodyA)
        /\ Has(kv, Key(IdA)) /\ Has(cache, Key(IdA))
        /\ kv[Key(IdA)].body = BodyA /\ cache[Key(IdA)].body = BodyA

\* C20 (as claimed) -- Bounded availability: once KV_TTL + CACHE_TTL have
\* passed since the last store write of an identifier, every retrieval of
\* it is answered 404 "not found".
C20_GoneAfterHorizon ==
    \A p \in Slots :
        Ended(p) /\ IsGet(procs[p]) /\ Clean(procs[p]) /\ procs[p].late
            => procs[p].resp = Ok(404, Text("not found"))

\* C20 (amended) -- a cache entry lasts CACHE_TTL from the fill that wrote
\* it and a hit does not refresh it; once KV_TTL has passed since the last
\* store write and CACHE_TTL since the last cache fill of an identifier,
\* every retrieval of it is answered 404 "not found".
C20_GoneAfterBothPeriods ==
    /\ \A k \in DOMAIN cache :
          k \in DOMAIN hist.filled /\ cache[k].ttl = hist.filled[k]
    /\ \A p \in Slots :
          Ended(p) /\ IsGet(procs[p]) /\ Clean(procs[p]) /\ procs[p].cold
              => procs[p].resp = Ok(404, Text("not found"))

\* A paste that had been retrieved and cached was answered 404 after both
\* periods, and the Horizon, had passed.
C20_Witness ==
    \E p \in Slots :
        /\ Ended(p) /\ IsGet(procs[p]) /\ Clean(procs[p])
        /\ procs[p].id = IdA /\ Key(IdA) \in hist.cached
        /\ procs[p].cold /\ procs[p].late
        /\ procs[p].resp = Ok(404, Text("not found"))

====
